---- MODULE Spec2Model ----
(***************************************************************************)
(* Model of the heat-map layer of WebWorldWind:                            *)
(*   src/src/layer/heatmap/GeographicalFilter.js  (the spatial index)      *)
(*   src/src/layer/heatmap/HeatMapLayer.js        (the gradient table)     *)
(*                                                                         *)
(* Numbers.  Latitudes and longitudes are JavaScript numbers; the model    *)
(* keeps them in fixed point, as whole multiples of 1/Unit of a degree, so *)
(* that Math.floor is a real operation (Floor) and a bound such as 0.7 or  *)
(* -180.2 is not a whole degree.  Cell indices and the results of Floor    *)
(* are whole degrees.                                                      *)
(***************************************************************************)
EXTENDS Integers, Sequences, FiniteSets, TLC

\* Resolution of the fixed-point coordinates: 1 degree = Unit units.
Unit == 10
\* Longest point sequence a layer is built from (the reference set of the
\* test apart).
MaxPoints == 2

\* The cell table of createGrid: for (lat = -90; lat <= 90; lat++)
\*                                 for (lon = -180; lon <= 180; lon++)
MinLatCell == -90
MaxLatCell == 90
MinLonCell == -180
MaxLonCell == 180
\* 360 + element.longitude, -360 + element.longitude
FullTurn == 360

LatCells == MinLatCell..MaxLatCell
LonCells == MinLonCell..MaxLonCell

\* d degrees and f units, in units.
Deg(d, f) == d * Unit + f

\* Math.floor of a coordinate: the whole degree at or below it.
Floor(x) == x \div Unit

\* Math.abs
Abs(x) == IF x < 0 THEN -x ELSE x

\* new MeasuredLocation(latitude, longitude, measure): the three fields the
\* filter reads and the test passes; there is no field named intensity.
MeasuredLocation(latitude, longitude, measure) ==
    [latitude |-> latitude, longitude |-> longitude, measure |-> measure]

\* new Sector(minLatitude, maxLatitude, minLongitude, maxLongitude), in units.
Sector(minLatitude, maxLatitude, minLongitude, maxLongitude) ==
    [minLatitude |-> minLatitude, maxLatitude |-> maxLatitude,
     minLongitude |-> minLongitude, maxLongitude |-> maxLongitude]

\* Sector.prototype.containsLocation: the bounds are inclusive.
containsLocation(sector, latitude, longitude) ==
    /\ sector.minLatitude <= latitude
    /\ latitude <= sector.maxLatitude
    /\ sector.minLongitude <= longitude
    /\ longitude <= sector.maxLongitude

Range(s) == {s[i] : i \in 1..Len(s)}

(***************************************************************************)
(* GeographicalFilter.prototype.createGrid                                  *)
(***************************************************************************)
\* data[latitude][longitude] exists for this point (else the push throws a
\* TypeError: data[latitude] or data[latitude][longitude] is undefined).
cellExists(measured) ==
    /\ Floor(measured.latitude) \in LatCells
    /\ Floor(measured.longitude) \in LonCells

inCell(measured, lat, lon) ==
    Floor(measured.latitude) = lat /\ Floor(measured.longitude) = lon

\* The table after the forEach: every cell holds, in ingestion order, the
\* points whose floored coordinates are the cell's.  The table is kept by
\* its non-empty cells: a function from <<lat, lon>> to the cell's list;
\* every other cell of LatCells \X LonCells holds the empty list it was
\* created with, and nothing outside LatCells \X LonCells is a cell.
createGrid(measuredLocations) ==
    [c \in {<<Floor(m.latitude), Floor(m.longitude)>> :
               m \in Range(measuredLocations)} |->
        SelectSeq(measuredLocations, LAMBDA m : inCell(m, c[1], c[2]))]

(***************************************************************************)
(* Array.prototype.sort                                                     *)
(***************************************************************************)
\* The comparator of filter(): by latitude, then by longitude.  Its last
\* test compares elm2.longitude with itself and is never true.
compare(elm1, elm2) ==
    IF elm1.latitude > elm2.latitude THEN 1
    ELSE IF elm1.latitude < elm2.latitude THEN -1
    ELSE IF elm1.longitude > elm2.longitude THEN 1
    ELSE IF elm2.longitude < elm2.longitude THEN -1
    ELSE 0

\* The comparator of setGradient(): by measure.
compareMeasure(item1, item2) ==
    IF item1.measure < item2.measure THEN -1
    ELSE IF item1.measure > item2.measure THEN 1
    ELSE 0

comparefn(kind, a, b) ==
    IF kind = "filter" THEN compare(a, b) ELSE compareMeasure(a, b)

InsertAt(r, p, x) == SubSeq(r, 1, p - 1) \o <<x>> \o SubSeq(r, p, Len(r))

\* Where a sort may put x, which came after every element of r in the
\* input.  ECMAScript fixes the result of sort only for a consistent
\* comparator and only up to the order of elements that compare equal; an
\* engine asks comparefn(a, b) or comparefn(b, a) as its algorithm likes.
\* x goes before an element y only if comparefn(x, y) says "not after"; x
\* stays after y if either question allows it: comparefn(y, x) <= 0, or
\* comparefn(x, y) >= 0.  For a consistent comparator this is every sorted
\* order; for compare above it also leaves two points of one latitude in
\* their input order when the first has the greater longitude (the engines
\* that ask comparefn(later, earlier) < 0, which compare never answers for
\* one latitude), and sorts them for the engines that ask
\* comparefn(earlier, later) > 0.
sortPositions(r, x, kind) ==
    {p \in 1..(Len(r) + 1) :
        /\ \A i \in 1..(p - 1) :
              comparefn(kind, r[i], x) <= 0 \/ comparefn(kind, x, r[i]) >= 0
        /\ \A i \in p..Len(r) : comparefn(kind, x, r[i]) <= 0}

RECURSIVE sortOutcomes(_, _)
sortOutcomes(s, kind) ==
    IF Len(s) = 0 THEN {<<>>}
    ELSE LET x == s[Len(s)]
         IN  UNION {{InsertAt(r, p, x) : p \in sortPositions(r, x, kind)} :
                        r \in sortOutcomes(SubSeq(s, 1, Len(s) - 1), kind)}

(***************************************************************************)
(* GeographicalFilter.prototype.grid and .array                             *)
(***************************************************************************)
\* One forEach over a list: the elements the sector contains, pushed as
\* they are (shift = 0) or as new MeasuredLocations moved by shift.
emit(list, sector, shift) ==
    LET kept == SelectSeq(list,
                    LAMBDA e : containsLocation(sector, e.latitude, e.longitude))
    IN  [i \in 1..Len(kept) |->
            IF shift = 0 THEN kept[i]
            ELSE MeasuredLocation(kept[i].latitude, shift + kept[i].longitude,
                                  kept[i].measure)]

\* extraLongitudeBefore without Math.abs.
extraLongitudeBeforeSigned(sector) ==
    IF Floor(sector.minLongitude) <= MinLonCell
    THEN Floor(sector.minLongitude) - MinLonCell ELSE 0

extraLongitudeBefore(sector) ==
    IF Floor(sector.minLongitude) <= MinLonCell
    THEN Abs(Floor(sector.minLongitude) - MinLonCell) ELSE 0

extraLongitudeAfter(sector) ==
    IF Floor(sector.maxLongitude) >= MaxLonCell
    THEN Abs(Floor(sector.maxLongitude) - MaxLonCell) ELSE 0

\* beforeSector and afterSector, from whole-degree bounds.
wrapSector(minLatitude, maxLatitude, lonFrom, lonTo) ==
    Sector(Deg(minLatitude, 0), Deg(maxLatitude, 0), Deg(lonFrom, 0), Deg(lonTo, 0))

\* for (lat = latFrom; lat <= latTo; lat++) for (lon = lonFrom; lon <= lonTo; lon++)
\* reads data[lat][lon]: a cell outside the table is undefined, and
\* undefined.forEach throws a TypeError.
gridLoopThrows(latFrom, latTo, lonFrom, lonTo) ==
    /\ latFrom <= latTo
    /\ lonFrom <= lonTo
    /\ \/ latFrom < MinLatCell \/ latTo > MaxLatCell
       \/ lonFrom < MinLonCell \/ lonTo > MaxLonCell

RECURSIVE gridCells(_, _, _, _)
gridCells(data, cells, sector, shift) ==
    IF cells = {} THEN <<>>
    ELSE LET c == CHOOSE c \in cells : \A d \in cells :
                     c[1] < d[1] \/ (c[1] = d[1] /\ c[2] <= d[2])
         IN  emit(data[c], sector, shift)
                 \o gridCells(data, cells \ {c}, sector, shift)

\* gridLoop with lon < lonTo for its inner loop.
gridLoopExclusive(data, latFrom, latTo, lonFrom, lonTo, sector, shift) ==
    gridCells(data,
              {c \in DOMAIN data : /\ latFrom <= c[1] /\ c[1] <= latTo
                                   /\ lonFrom <= c[2] /\ c[2] < lonTo},
              sector, shift)

\* The two nested loops over the cells, rows first: what they push (the
\* cells that hold no point push nothing).
gridLoop(data, latFrom, latTo, lonFrom, lonTo, sector, shift) ==
    gridCells(data,
              {c \in DOMAIN data : /\ latFrom <= c[1] /\ c[1] <= latTo
                                   /\ lonFrom <= c[2] /\ c[2] <= lonTo},
              sector, shift)

\* [thrown, result] of grid(sector).
grid(data, sector) ==
    LET before == extraLongitudeBefore(sector)
        after == extraLongitudeAfter(sector)
        minLat == IF Floor(sector.minLatitude) <= MinLatCell
                  THEN MinLatCell ELSE Floor(sector.minLatitude)
        maxLat == IF Floor(sector.maxLatitude) >= MaxLatCell
                  THEN MaxLatCell ELSE Floor(sector.maxLatitude)
        minLon == IF Floor(sector.minLongitude) <= MinLonCell
                  THEN MinLonCell ELSE Floor(sector.minLongitude)
        maxLon == IF Floor(sector.maxLongitude) >= MaxLonCell
                  THEN MaxLonCell ELSE Floor(sector.maxLongitude)
    IN  IF \/ gridLoopThrows(minLat, maxLat, minLon, maxLon)
           \/ before # 0 /\ gridLoopThrows(minLat, maxLat,
                                           MaxLonCell - before, MaxLonCell)
           \/ after # 0 /\ gridLoopThrows(minLat, maxLat,
                                          MinLonCell, MinLonCell + after)
        THEN [thrown |-> TRUE, result |-> <<>>]
        ELSE [thrown |-> FALSE,
              result |->
                 gridLoop(data, minLat, maxLat, minLon, maxLon, sector, 0)
                 \o (IF before # 0
                     THEN gridLoop(data, minLat, maxLat,
                                   MaxLonCell - before, MaxLonCell,
                                   wrapSector(minLat, maxLat,
                                              MaxLonCell - before, MaxLonCell),
                                   Deg(-FullTurn, 0))
                     ELSE <<>>)
                 \o (IF after # 0
                     THEN gridLoop(data, minLat, maxLat,
                                   MinLonCell, MinLonCell + after,
                                   wrapSector(minLat, maxLat,
                                              MinLonCell, MinLonCell + after),
                                   Deg(FullTurn, 0))
                     ELSE <<>>)]

\* [thrown, result] of array(sector); the latitudes are floored, not clamped.
array(data, sector) ==
    LET before == extraLongitudeBefore(sector)
        after == extraLongitudeAfter(sector)
        minLat == Floor(sector.minLatitude)
        maxLat == Floor(sector.maxLatitude)
    IN  [thrown |-> FALSE,
         result |->
            emit(data, sector, 0)
            \o (IF before # 0
                THEN emit(data,
                          wrapSector(minLat, maxLat, MaxLonCell - before, MaxLonCell),
                          Deg(-FullTurn, 0))
                ELSE <<>>)
            \o (IF after # 0
                THEN emit(data,
                          wrapSector(minLat, maxLat, MinLonCell, MinLonCell + after),
                          Deg(FullTurn, 0))
                ELSE <<>>)]

\* The results filter(sector) can return: grid or array, then result.sort.
filter(dataStructure, data, sector) ==
    LET passes == IF dataStructure = "GRID" THEN grid(data, sector)
                  ELSE array(data, sector)
    IN  IF passes.thrown THEN {passes}
        ELSE {[thrown |-> FALSE, result |-> r] :
                 r \in sortOutcomes(passes.result, "filter")}

(***************************************************************************)
(* HeatMapLayer.prototype.setGradient                                       *)
(***************************************************************************)
RECURSIVE GCD(_, _)
GCD(a, b) == IF b = 0 THEN a ELSE GCD(b, a % b)

\* A key of the gradient object: the number a / b as the pair of its lowest
\* terms (IEEE division is correctly rounded, so equal quotients are equal
\* keys and different quotients of these small numbers are different keys).
\* <<0, 0>> is NaN and <<1, 0>> is Infinity.
NaN == <<0, 0>>
Quotient(a, b) ==
    IF b = 0 THEN (IF a = 0 THEN NaN ELSE <<1, 0>>)
    ELSE <<a \div GCD(a, b), b \div GCD(a, b)>>

\* gradient[key] = color on an object: a later write to a key replaces the
\* earlier one.
put(gradient, key, color) ==
    [k \in (DOMAIN gradient) \cup {key} |->
        IF k = key THEN color ELSE gradient[k]]

\* The empty object {}.
emptyGradient == [k \in {} |-> "none"]

\* The same forEach with the stops spread over the whole of [0, 1]:
\* gradient[index / (scale.length - 1)] = color.
RECURSIVE continuousStopsInclusive(_, _)
continuousStopsInclusive(scale, n) ==
    IF n = 0 THEN emptyGradient
    ELSE put(continuousStopsInclusive(scale, n - 1),
             Quotient(n - 1, Len(scale) - 1), scale[n])

\* scale.forEach(function (color, index) { gradient[index / scale.length] = color; })
\* after its first n calls.
RECURSIVE continuousStops(_, _)
continuousStops(scale, n) ==
    IF n = 0 THEN emptyGradient
    ELSE put(continuousStops(scale, n - 1),
             Quotient(n - 1, Len(scale)), scale[n])

\* data[...].intensity / max: a MeasuredLocation has no field intensity, so
\* the numerator is undefined and the quotient NaN.
pointInScale(element, max) ==
    IF "intensity" \in DOMAIN element THEN Quotient(element.intensity, max)
    ELSE NaN

\* The forEach of the QUANTILES branch after its first n calls;
\* Math.floor(index / scale.length * data.length) is taken exactly.
RECURSIVE quantileStops(_, _, _)
quantileStops(scale, data, n) ==
    IF n = 0 THEN emptyGradient
    ELSE put(quantileStops(scale, data, n - 1),
             pointInScale(data[(((n - 1) * Len(data)) \div Len(scale)) + 1],
                          data[Len(data)].measure),
             scale[n])

\* What a call setGradient(data) can do: whether it throws, the object it
\* assigns to this.gradient when it does not, and the array data after it
\* (data.sort sorts the caller's array in place).  hasData is FALSE for the
\* call setGradient() of the setters, whose data is undefined.
setGradient(intervalType, scale, hasData, data) ==
    IF intervalType = "CONTINUOUS"
    THEN {[thrown |-> FALSE, gradient |-> continuousStops(scale, Len(scale)),
           data |-> data]}
    ELSE IF intervalType # "QUANTILES"
    THEN {[thrown |-> FALSE, gradient |-> emptyGradient, data |-> data]}
    ELSE IF ~hasData
    THEN \* undefined.sort
         {[thrown |-> TRUE, gradient |-> emptyGradient, data |-> data]}
    ELSE {IF Len(sorted) = 0
          THEN \* data[-1].measure
               [thrown |-> TRUE, gradient |-> emptyGradient, data |-> sorted]
          ELSE [thrown |-> FALSE,
                gradient |-> IF Len(sorted) >= Len(scale)
                             THEN quantileStops(scale, sorted, Len(scale))
                             ELSE continuousStops(scale, Len(scale)),
                data |-> sorted] :
             sorted \in sortOutcomes(data, "measure")}

(***************************************************************************)
(* The program: a HeatMapLayer built from an array of points, and a second *)
(* GeographicalFilter built from the same points in another order (as the  *)
(* test builds an ARRAY and a GRID filter from one set).  Index 1 is the    *)
(* layer's filter, index 2 the second filter.                               *)
(***************************************************************************)
VARIABLES
    pc,                 \* "new", "layer" (the layer is built), "ready"
    measuredLocations,  \* the two arrays the callers passed
    dataStructure,      \* _dataStructure of the two filters
    gridOf,             \* the table createGrid returned (GRID), else none
    sector,             \* the sector of the last filter call
    result,             \* what the last filter call returned, per filter
    thrown,             \* whether it threw instead, per filter
    intervalType,       \* the layer's _intervalType
    scale,              \* the layer's _scale
    gradient,           \* the layer's _gradient
    lastCall,           \* the last call on the layer and whether it threw
    attempt             \* the last constructor call: what it was given and
                        \* the error it threw, if any

vars == <<pc, measuredLocations, dataStructure, gridOf, sector, result, thrown,
          intervalType, scale, gradient, lastCall, attempt>>

filterVars == <<sector, result, thrown>>
layerVars == <<intervalType, scale, gradient>>

Filters == {1, 2}

\* this._data of a filter: the table, or the caller's array itself.
dataOf(i) == IF dataStructure[i] = "GRID" THEN gridOf[i] ELSE measuredLocations[i]

\* this._scale = ['blue', 'cyan', 'lime', 'yellow', 'red']
DefaultScale == <<"blue", "cyan", "lime", "yellow", "red">>
Scales == {DefaultScale, <<"blue", "red">>}
IntervalTypes == {"CONTINUOUS", "QUANTILES"}
DataStructures == {"GRID", "ARRAY"}

\* What a caller can pass for the data structure: the two names, nothing
\* (undefined), the empty string, and names that are neither.
Undefined == "undefined"
Selectors == DataStructures \cup {Undefined, "", "TREE", "grid"}

\* dataStructure !== 'GRID' && dataStructure !== 'ARRAY' also for the
\* names in lower case.
validDataStructureAnyCase(usedDataStructure) ==
    usedDataStructure \in {"GRID", "ARRAY", "grid", "array"}

\* Not (dataStructure !== 'GRID' && dataStructure !== 'ARRAY').
validDataStructure(usedDataStructure) ==
    usedDataStructure = "GRID" \/ usedDataStructure = "ARRAY"

\* usedDataStructure || "GRID": undefined and the empty string are falsy.
orGrid(usedDataStructure) ==
    IF usedDataStructure \in {Undefined, ""} THEN "GRID" ELSE usedDataStructure

\* The error new GeographicalFilter(data, dataStructure) throws: the
\* ArgumentError of its first test, or the TypeError of createGrid at
\* data[latitude][longitude].push for a point that has no cell.
constructorError(data, usedDataStructure) ==
    IF ~validDataStructure(usedDataStructure) THEN "ArgumentError"
    ELSE IF usedDataStructure = "GRID" /\ \E m \in Range(data) : ~cellExists(m)
    THEN "TypeError"
    ELSE "none"

\* The points a layer is built from: (0, 179.5) and (0, 180) share a
\* latitude, (0.5, -179.5) and (-0.5, 0) have latitudes within a degree.
Candidates ==
    {MeasuredLocation(Deg(0, 0), Deg(179, Unit \div 2), 2),
     MeasuredLocation(Deg(0, 0), Deg(180, 0), 1),
     MeasuredLocation(Deg(0, Unit \div 2), Deg(-180, Unit \div 2), 1),
     MeasuredLocation(Deg(-1, Unit \div 2), Deg(0, 0), 3)}

PointSeqs == UNION {[1..n -> Candidates] : n \in 0..MaxPoints}

\* b holds the elements of a, each as often, in some order.
sameElements(a, b) ==
    /\ Len(a) = Len(b)
    /\ \A x \in Range(a) \cup Range(b) :
          Cardinality({i \in 1..Len(a) : a[i] = x})
              = Cardinality({i \in 1..Len(b) : b[i] = x})

\* The sectors queried: minLatitude, maxLatitude, minLongitude, maxLongitude.
\*   [-0.5, 0.5] x [-179.5, 179.5]   no wraparound, points on its bounds
\*   [-1, 0.2] x [-180.2, -179]      reaches west of -180
\*   [-1, 0.7] x [179, 181.2]        reaches east of 180
\*   [-1, 1] x [-180, 0]             reaches -180 and no further
\*   [-1, 1] x [-1, 541]             more than a full turn east of 180
\*   [-100, 100] x [-1, 1]           latitudes beyond the poles
\*   [50, 60] x [10, 20]             holds no point
Sectors ==
    {Sector(Deg(-1, Unit \div 2), Deg(0, Unit \div 2),
            Deg(-180, Unit \div 2), Deg(179, Unit \div 2)),
     Sector(Deg(-1, 0), Deg(0, 2), Deg(-181, Unit - 2), Deg(-179, 0)),
     Sector(Deg(-1, 0), Deg(0, Unit - 3), Deg(179, 0), Deg(181, 2)),
     Sector(Deg(-1, 0), Deg(1, 0), Deg(-180, 0), Deg(0, 0)),
     Sector(Deg(-1, 0), Deg(1, 0), Deg(-1, 0), Deg(541, 0)),
     Sector(Deg(-100, 0), Deg(100, 0), Deg(-1, 0), Deg(1, 0)),
     Sector(Deg(50, 0), Deg(60, 0), Deg(10, 0), Deg(20, 0))}

\* The value of sector before the first filter call (none of Sectors).
NoSector == Sector(0, 0, 0, 0)

Init ==
    /\ pc = "new"
    /\ measuredLocations = [i \in Filters |-> <<>>]
    /\ dataStructure = [i \in Filters |-> "none"]
    /\ gridOf = [i \in Filters |-> <<>>]
    /\ sector = NoSector
    /\ result = [i \in Filters |-> <<>>]
    /\ thrown = [i \in Filters |-> FALSE]
    /\ intervalType = "none"
    /\ scale = <<>>
    /\ gradient = emptyGradient
    /\ lastCall = [name |-> "none", thrown |-> FALSE]
    /\ attempt = [of |-> "none", selector |-> "none", data |-> <<>>,
                  error |-> "none"]

\* new GeographicalFilter(data, dataStructure) as filter i: when it throws
\* there is no filter and no index.
GeographicalFilter(i, data, usedDataStructure) ==
    IF constructorError(data, usedDataStructure) = "none"
    THEN /\ measuredLocations' = [measuredLocations EXCEPT ![i] = data]
         /\ dataStructure' = [dataStructure EXCEPT ![i] = usedDataStructure]
         /\ gridOf' = [gridOf EXCEPT ![i] = IF usedDataStructure = "GRID"
                                            THEN createGrid(data) ELSE <<>>]
    ELSE UNCHANGED <<measuredLocations, dataStructure, gridOf>>

\* new HeatMapLayer(displayName, locations, usedDataStructure): an error of
\* new GeographicalFilter leaves the constructor, and no layer is built.
HeatMapLayer(locations, usedDataStructure) ==
    /\ pc = "new"
    /\ GeographicalFilter(1, locations, orGrid(usedDataStructure))
    /\ attempt' = [of |-> "HeatMapLayer", selector |-> usedDataStructure,
                   data |-> locations,
                   error |-> constructorError(locations, orGrid(usedDataStructure))]
    /\ IF constructorError(locations, orGrid(usedDataStructure)) = "none"
       THEN /\ intervalType' = "CONTINUOUS"
            /\ scale' = DefaultScale
            /\ \E out \in setGradient("CONTINUOUS", DefaultScale, TRUE, locations) :
                  gradient' = out.gradient
            /\ lastCall' = [name |-> "new", thrown |-> FALSE]
            /\ pc' = "layer"
       ELSE UNCHANGED <<layerVars, lastCall, pc>>
    /\ UNCHANGED filterVars

\* new GeographicalFilter(locations, usedDataStructure): the second filter,
\* from the layer's points in any order.
SecondFilter(locations, usedDataStructure) ==
    /\ pc = "layer"
    /\ sameElements(measuredLocations[1], locations)
    /\ GeographicalFilter(2, locations, usedDataStructure)
    /\ attempt' = [of |-> "GeographicalFilter", selector |-> usedDataStructure,
                   data |-> locations,
                   error |-> constructorError(locations, usedDataStructure)]
    /\ pc' = IF constructorError(locations, usedDataStructure) = "none"
             THEN "ready" ELSE pc
    /\ UNCHANGED <<filterVars, layerVars, lastCall>>

\* filter(s) on both filters.
Filter(s) ==
    /\ pc = "ready"
    /\ \E out1 \in filter(dataStructure[1], dataOf(1), s),
          out2 \in filter(dataStructure[2], dataOf(2), s) :
          /\ result' = [i \in Filters |-> IF i = 1 THEN out1.result ELSE out2.result]
          /\ thrown' = [i \in Filters |-> IF i = 1 THEN out1.thrown ELSE out2.thrown]
    /\ sector' = s
    /\ UNCHANGED <<pc, measuredLocations, dataStructure, gridOf, layerVars, lastCall,
                   attempt>>

\* The call this.setGradient(data) that ends a setter or is made directly.
\* In ARRAY mode data, when it is the array the layer was built from, is
\* the filter's _data: one array object.
callSetGradient(name, newType, newScale, hasData) ==
    \E out \in setGradient(newType, newScale, hasData, measuredLocations[1]) :
        /\ gradient' = IF out.thrown THEN gradient ELSE out.gradient
        /\ measuredLocations' = [measuredLocations EXCEPT ![1] = out.data]
        /\ lastCall' = [name |-> name, thrown |-> out.thrown]

\* layer.intervalType = t
SetIntervalType(t) ==
    /\ pc = "ready"
    /\ intervalType' = t
    /\ callSetGradient("intervalType", t, scale, FALSE)
    /\ UNCHANGED <<pc, dataStructure, gridOf, attempt, filterVars, scale>>

\* layer.scale = s
SetScale(s) ==
    /\ pc = "ready"
    /\ scale' = s
    /\ callSetGradient("scale", intervalType, s, FALSE)
    /\ UNCHANGED <<pc, dataStructure, gridOf, attempt, filterVars, intervalType>>

\* layer.setGradient(measuredLocations), as the constructor calls it.
SetGradient ==
    /\ pc = "ready"
    /\ callSetGradient("setGradient", intervalType, scale, TRUE)
    /\ UNCHANGED <<pc, dataStructure, gridOf, attempt, filterVars, intervalType, scale>>

Next ==
    \/ \E locations \in PointSeqs, ds \in DataStructures :
          HeatMapLayer(locations, ds)
    \/ \E locations \in PointSeqs, ds \in DataStructures :
          SecondFilter(locations, ds)
    \/ \E s \in Sectors : Filter(s)
    \/ \E t \in IntervalTypes : SetIntervalType(t)
    \/ \E s \in Scales : SetScale(s)
    \/ SetGradient

Spec == Init /\ [][Next]_vars

(***************************************************************************)
(* The reference set of GeographicalFilter.test.js.                         *)
(***************************************************************************)
\* locationsToUseForTest: (-45, -140) ... (-10, -175), (-5, -179.9),
\* (0, 179.9), (5, 175) ... (45, 135), every measure 10.  179.9 is
\* 180 degrees less one unit.
locationsToUseForTest ==
    [i \in 1..19 |->
        IF i <= 8 THEN MeasuredLocation(Deg(5 * i - 50, 0), Deg(-135 - 5 * i, 0), 10)
        ELSE IF i = 9 THEN MeasuredLocation(Deg(-5, 0), Deg(-179, -(Unit - 1)), 10)
        ELSE IF i = 10 THEN MeasuredLocation(Deg(0, 0), Deg(179, Unit - 1), 10)
        ELSE MeasuredLocation(Deg(5 * i - 50, 0), Deg(230 - 5 * i, 0), 10)]

Reverse(s) == [i \in 1..Len(s) |-> s[Len(s) + 1 - i]]

\* new Sector(20, 30, 150, 160) and new Sector(-30, 30, -225, -160)
StandardSector == Sector(Deg(20, 0), Deg(30, 0), Deg(150, 0), Deg(160, 0))
AntimeridianSector == Sector(Deg(-30, 0), Deg(30, 0), Deg(-225, 0), Deg(-160, 0))

NextRef ==
    \/ \E ds \in DataStructures : HeatMapLayer(locationsToUseForTest, ds)
    \/ \E locations \in {locationsToUseForTest, Reverse(locationsToUseForTest)},
          ds \in DataStructures :
          SecondFilter(locations, ds)
    \/ \E s \in Sectors \cup {StandardSector, AntimeridianSector} : Filter(s)
    \/ \E t \in IntervalTypes : SetIntervalType(t)
    \/ \E s \in Scales : SetScale(s)

SpecRef == Init /\ [][NextRef]_vars

(***************************************************************************)
(* Construction alone, from every kind of argument: points on and off the  *)
(* table of cells, and every selector.                                     *)
(***************************************************************************)
\* Points whose longitude is past 180 or before -180: (0, 180.5) still has
\* the cell (0, 180); (0, 181) and (0.5, -180.5) have none.
OffTable ==
    {MeasuredLocation(Deg(0, 0), Deg(180, Unit \div 2), 1),
     MeasuredLocation(Deg(0, 0), Deg(181, 0), 2),
     MeasuredLocation(Deg(0, Unit \div 2), Deg(-181, Unit \div 2), 1)}

\* Sequences of these and of the candidates on the equator.
WidePointSeqs ==
    UNION {[1..n -> {c \in Candidates : c.latitude = 0} \cup OffTable] :
              n \in 0..MaxPoints}

NextBuild ==
    \/ \E locations \in WidePointSeqs, selector \in Selectors :
          HeatMapLayer(locations, selector)
    \/ \E locations \in WidePointSeqs, selector \in Selectors :
          SecondFilter(locations, selector)

SpecBuild == Init /\ [][NextBuild]_vars

(***************************************************************************)
(* Properties                                                               *)
(***************************************************************************)
\* A filter call has been made.
queried == pc = "ready" /\ sector # NoSector

pointsOf(i) == Range(measuredLocations[i])

inLatitudes(s, p) == s.minLatitude <= p.latitude /\ p.latitude <= s.maxLatitude

shifted(p, turn) ==
    MeasuredLocation(p.latitude, p.longitude + Deg(turn, 0), p.measure)

\* C1: for a sector with minLongitude <= -180, every stored point with
\* longitude in [minLongitude + 360, 180] and latitude within the sector's
\* latitude bounds is returned moved by -360, latitude and measure kept;
\* for maxLongitude >= 180, every stored point with longitude in
\* [-180, maxLongitude - 360] is returned moved by +360.  Both modes, bounds
\* of any fraction of a degree.  (Stated here of the queries that return
\* and of the sectors that reach beyond -180 or 180, not only to it.)
C1_WrapAroundComplete ==
    queried =>
        \A i \in {j \in Filters : ~thrown[j]} : \A p \in pointsOf(i) :
            /\ ( /\ sector.minLongitude < Deg(MinLonCell, 0)
                 /\ sector.minLongitude + Deg(FullTurn, 0) <= p.longitude
                 /\ p.longitude <= Deg(MaxLonCell, 0)
                 /\ inLatitudes(sector, p) )
               => shifted(p, -FullTurn) \in Range(result[i])
            /\ ( /\ sector.maxLongitude > Deg(MaxLonCell, 0)
                 /\ Deg(MinLonCell, 0) <= p.longitude
                 /\ p.longitude <= sector.maxLongitude - Deg(FullTurn, 0)
                 /\ inLatitudes(sector, p) )
               => shifted(p, FullTurn) \in Range(result[i])

\* C2: every point filter(sector) returns, the moved copies included, lies
\* in the sector passed to filter.
C2_ResultInsideSector ==
    queried =>
        \A i \in Filters : \A k \in 1..Len(result[i]) :
            containsLocation(sector, result[i][k].latitude, result[i][k].longitude)

\* C3: for a sector that needs no wraparound (-180 < minLongitude and
\* maxLongitude < 180) and points within [-90,90] x [-180,180], the GRID
\* query and the ARRAY query each return, as a set, exactly the stored
\* points the sector contains (bounds inclusive); so both return one set.
nonWrapping(s) ==
    Deg(MinLonCell, 0) < s.minLongitude /\ s.maxLongitude < Deg(MaxLonCell, 0)

C3_NonWrappingExact ==
    (queried /\ nonWrapping(sector)) =>
        \A i \in Filters :
            /\ ~thrown[i]
            /\ Range(result[i]) =
                  {p \in pointsOf(i) :
                      containsLocation(sector, p.latitude, p.longitude)}

\* A non-wrapping query answered by a GRID and an ARRAY filter that keeps
\* some points and leaves others out.
C3_Witness ==
    /\ queried /\ nonWrapping(sector)
    /\ dataStructure[1] = "GRID" /\ dataStructure[2] = "ARRAY"
    /\ result[1] # <<>>
    /\ Range(result[2]) # pointsOf(2)
    /\ \E p \in Range(result[1]) : p.longitude # Deg(Floor(p.longitude), 0)

\* C4: the sequence filter returns is ascending by latitude and, for equal
\* latitudes, ascending by longitude.
sortedByLatitudeLongitude(r) ==
    \A k \in 1..(Len(r) - 1) :
        \/ r[k].latitude < r[k + 1].latitude
        \/ r[k].latitude = r[k + 1].latitude /\ r[k].longitude <= r[k + 1].longitude

C4_ResultSorted ==
    queried => \A i \in Filters : ~thrown[i] => sortedByLatitudeLongitude(result[i])

\* C5: two filters built from the same points, in whichever mode and
\* order, return the same sequence for the same sector.
C5_SameSequence ==
    (queried /\ ~thrown[1] /\ ~thrown[2]) => result[1] = result[2]

\* C6: on the reference set, Sector(-30, 30, -225, -160) returns 12 points
\* in both modes.  As stated, the longitudes come ascending:
\* -210, -205, ..., -185, -180.1, -179.9, -175, ..., -160.
longitudesOf(r) == [k \in 1..Len(r) |-> r[k].longitude]

\* -160, -165, -170, -175, -179.9, -180.1, -185, ..., -210
antimeridianLongitudes ==
    [k \in 1..12 |->
        IF k <= 4 THEN Deg(-155 - 5 * k, 0)
        ELSE IF k = 5 THEN Deg(-179, -(Unit - 1))
        ELSE IF k = 6 THEN Deg(-181, Unit - 1)
        ELSE Deg(-150 - 5 * k, 0)]

C6_AscendingLongitude ==
    (queried /\ sector = AntimeridianSector) =>
        \A i \in Filters :
            /\ ~thrown[i]
            /\ longitudesOf(result[i]) = Reverse(antimeridianLongitudes)

\* C6 (amended): the 12 points come ascending by latitude, -25 to 30, which
\* is descending by longitude: -160, -165, -170, -175, -179.9, -180.1,
\* -185, -190, -195, -200, -205, -210.
C6_TwelveByLatitude ==
    (queried /\ sector = AntimeridianSector) =>
        \A i \in Filters :
            /\ ~thrown[i]
            /\ Len(result[i]) = 12
            /\ longitudesOf(result[i]) = antimeridianLongitudes
            /\ \A k \in 1..Len(result[i]) :
                  result[i][k].latitude = Deg(5 * k - 30, 0)

\* The antimeridian query answered by a GRID and an ARRAY filter built from
\* the reference set in opposite orders.
C6_Witness ==
    /\ queried /\ sector = AntimeridianSector
    /\ dataStructure[1] = "GRID" /\ dataStructure[2] = "ARRAY"
    /\ measuredLocations[1] = locationsToUseForTest
    /\ measuredLocations[2] = Reverse(locationsToUseForTest)
    /\ Len(result[1]) = 12 /\ Len(result[2]) = 12

\* C7: a query never fails, whatever the sector, in both modes; when no
\* stored point, moved by -360, 0 or 360, is in the sector, it returns the
\* empty sequence.
C7_QueryNeverFails ==
    queried =>
        \A i \in Filters :
            /\ ~thrown[i]
            /\ (\A p \in pointsOf(i) : \A turn \in {-FullTurn, 0, FullTurn} :
                   ~containsLocation(sector, p.latitude,
                                     p.longitude + Deg(turn, 0)))
               => result[i] = <<>>

\* C8: after a change of the scale or of the interval type through the
\* setters, the gradient is the table the gradient rule gives for the
\* current scale, the current interval type and the layer's points:
\* CONTINUOUS, or QUANTILES with fewer points than colors, stop i/k for
\* color i; QUANTILES otherwise, the quantile stops of the points sorted by
\* measure.
ruleTables(type, colors, points) ==
    IF type = "CONTINUOUS" \/ Len(points) < Len(colors)
    THEN {continuousStops(colors, Len(colors))}
    ELSE {quantileStops(colors, sorted, Len(colors)) :
             sorted \in sortOutcomes(points, "measure")}

C8_GradientFollowsSetters ==
    (pc = "ready" /\ lastCall.name \in {"intervalType", "scale"}) =>
        gradient \in ruleTables(intervalType, scale, measuredLocations[1])

\* C9: with QUANTILES and fewer points than colors (no point at all
\* included), setGradient(points) is not an error and builds the CONTINUOUS
\* table of the scale.
C9_FewPointsContinuous ==
    ( /\ pc = "ready"
      /\ lastCall.name = "setGradient"
      /\ intervalType = "QUANTILES"
      /\ Len(measuredLocations[1]) < Len(scale) ) =>
        /\ ~lastCall.thrown
        /\ gradient = continuousStops(scale, Len(scale))

\* C10: once both indexes are built, no operation changes the store of an
\* index: the cells and their lists (GRID), the list and its order (ARRAY),
\* the points and their measures.
C10_StoreNeverChanges ==
    [][pc = "ready" =>
          /\ dataStructure' = dataStructure
          /\ \A i \in Filters : dataOf(i)' = dataOf(i)]_vars

\* The filter the last constructor call was building.
attempted == IF attempt.of = "HeatMapLayer" THEN 1 ELSE 2

\* Filter i does not exist: no points, no mode, no table.
noIndex(i) ==
    /\ measuredLocations[i] = <<>>
    /\ dataStructure[i] = "none"
    /\ gridOf[i] = <<>>

\* C11 as stated: a constructor call, of a filter or of a layer, with a
\* selector that is neither GRID nor ARRAY throws an ArgumentError, builds
\* no index, and uses no mode as a default.
C11_InvalidSelectorFails ==
    (attempt.of # "none" /\ attempt.selector \notin {"GRID", "ARRAY"})
        => (attempt.error = "ArgumentError" /\ noIndex(attempted))

\* C11, amended: the same, except that a layer built with no selector
\* (undefined or the empty string) is built as with GRID; a filter built
\* directly with no selector still throws the ArgumentError.
C11_InvalidSelectorFailsUnlessAbsent ==
    (attempt.of # "none" /\ attempt.selector \notin {"GRID", "ARRAY"})
        => IF attempt.of = "HeatMapLayer" /\ attempt.selector \in {Undefined, ""}
           THEN /\ attempt.error # "ArgumentError"
                /\ attempt.error = "none" =>
                      (pc # "new" /\ dataStructure[1] = "GRID"
                       /\ measuredLocations[1] = attempt.data)
           ELSE /\ attempt.error = "ArgumentError"
                /\ noIndex(attempted)
                /\ attempt.of = "HeatMapLayer" => (pc = "new" /\ intervalType = "none")

\* A layer stands, built with GRID, and a second filter asked for with no
\* selector was refused.
C11_Witness ==
    /\ pc = "layer"
    /\ dataStructure[1] = "GRID"
    /\ attempt.of = "GeographicalFilter"
    /\ attempt.selector = Undefined
    /\ attempt.error = "ArgumentError"
    /\ noIndex(2)

\* The layer is built and this.gradient is the table of the last call.
built == pc \in {"layer", "ready"} /\ ~lastCall.thrown

\* C12: with CONTINUOUS and a scale of k colors the gradient has exactly the
\* k stops 0, 1/k, ..., (k-1)/k, stop i/k holding color i of the scale,
\* whatever the points are and whether the call was given them or not; no
\* call that builds it fails, so building it again gives it again.
C12_ContinuousTable ==
    (pc \in {"layer", "ready"} /\ intervalType = "CONTINUOUS") =>
        /\ ~lastCall.thrown
        /\ DOMAIN gradient = {Quotient(i, Len(scale)) : i \in 0..(Len(scale) - 1)}
        /\ Cardinality(DOMAIN gradient) = Len(scale)
        /\ \A i \in 0..(Len(scale) - 1) :
              gradient[Quotient(i, Len(scale))] = scale[i + 1]

\* The table was rebuilt without data (by the scale setter) for a scale of
\* two colors over a layer of at least two points.
C12_Witness ==
    /\ pc = "ready"
    /\ intervalType = "CONTINUOUS"
    /\ lastCall.name = "scale"
    /\ Len(scale) = 2
    /\ Len(measuredLocations[1]) >= 2
    /\ gradient = (<<0, 1>> :> scale[1]) @@ (<<1, 2>> :> scale[2])

\* A stop that is a number of [0, 1], and the order of two such stops.
inUnitInterval(stop) == stop[2] > 0 /\ 0 <= stop[1] /\ stop[1] <= stop[2]
lessThan(s, t) == s[2] > 0 /\ t[2] > 0 /\ s[1] * t[2] < t[1] * s[2]

\* C13: for a scale of k colors, CONTINUOUS or QUANTILES, and at least k
\* points of measures >= 0, the gradient built has exactly k stops, every
\* stop is a number of [0, 1], and the stops of the colors rise strictly in
\* the order of the scale.
C13_StopsAscending ==
    ( /\ built
      /\ intervalType \in IntervalTypes
      /\ Len(measuredLocations[1]) >= Len(scale)
      /\ \A p \in Range(measuredLocations[1]) : p.measure >= 0 ) =>
        /\ Cardinality(DOMAIN gradient) = Len(scale)
        /\ \A stop \in DOMAIN gradient : inUnitInterval(stop)
        /\ \A i, j \in 1..Len(scale) :
              i < j => \E s, t \in DOMAIN gradient :
                          /\ gradient[s] = scale[i]
                          /\ gradient[t] = scale[j]
                          /\ lessThan(s, t)

\* How often the point p is in the list s.
occurrences(s, p) == Cardinality({k \in 1..Len(s) : s[k] = p})

\* The entries of all the lists of a table of cells.
entries(table) ==
    UNION {{<<cell, k>> : k \in 1..Len(table[cell])} : cell \in DOMAIN table}

\* C14: building the index with GRID from points of latitude in [-90, 90]
\* and any longitude succeeds; afterwards every point is in the list of
\* the cell (floor(latitude), floor(longitude)) of the 181 x 361 table and
\* in no other, and the lists hold as many points as were given.
C14_EveryPointInItsCell ==
    ( /\ attempt.of # "none"
      /\ attempt.selector = "GRID"
      /\ \A p \in Range(attempt.data) :
            Deg(MinLatCell, 0) <= p.latitude /\ p.latitude <= Deg(MaxLatCell, 0) ) =>
        /\ attempt.error = "none"
        /\ dataStructure[attempted] = "GRID"
        /\ DOMAIN gridOf[attempted] \subseteq LatCells \X LonCells
        /\ \A p \in Range(attempt.data) :
              \A cell \in (DOMAIN gridOf[attempted])
                          \cup {<<Floor(p.latitude), Floor(p.longitude)>>} :
                 IF cell = <<Floor(p.latitude), Floor(p.longitude)>>
                 THEN /\ cell \in DOMAIN gridOf[attempted]
                      /\ occurrences(gridOf[attempted][cell], p)
                            = occurrences(attempt.data, p)
                 ELSE occurrences(gridOf[attempted][cell], p) = 0
        /\ Cardinality(entries(gridOf[attempted])) = Len(attempt.data)

====
